---- MODULE Spec2Model ----
(***************************************************************************)
(* Ball / terrain collision playground: the keyboard-mode simulation step  *)
(* of Ball.tsx (useFrame), its reset effect, the ground query              *)
(* getGroundInfo and the vector helpers of physics/math.ts.                *)
(*                                                                         *)
(* Numbers.  The program computes in IEEE doubles.  Here every length and  *)
(* velocity is a fixed-point integer counting 1/Scale units, and every     *)
(* product or quotient is rounded to the nearest representable value       *)
(* (RoundDiv), as a floating-point operation rounds its exact result.      *)
(* Frame times count 1/TimeScale seconds, clock readings milliseconds.     *)
(* A vector is a triple <<x, y, z>>.                                       *)
(***************************************************************************)
EXTENDS Integers, Sequences, FiniteSets, TLC

\* ------------------------------------------------------------------ bounds
\* frames simulated in one behaviour
MaxFrames == 2
\* events delivered in one behaviour: key events, presses of Reset, terrain changes
MaxEvents == 2
\* frames and events together in one behaviour
MaxSteps == 4
\* the largest subdivision count handed to the terrain generator
MaxDivisions == 3

\* ------------------------------------------------------- number encoding
\* fixed-point units per length unit
Scale == 10 * 10
\* frame-time units per second
TimeScale == 4 * 60

Abs(n) == IF n < 0 THEN -n ELSE n
Min(a, b) == IF a < b THEN a ELSE b
Max(a, b) == IF a > b THEN a ELSE b
Sign(n) == IF n > 0 THEN 1 ELSE IF n < 0 THEN -1 ELSE 0

\* n / d rounded to the nearest integer (ties away from zero), d # 0
RoundDiv(n, d) ==
  LET nn == IF d < 0 THEN -n ELSE n
      dd == Abs(d)
  IN IF nn >= 0 THEN (2 * nn + dd) \div (2 * dd)
     ELSE -((2 * (-nn) + dd) \div (2 * dd))

RECURSIVE SqrtSearch(_, _, _)
SqrtSearch(n, lo, hi) ==
  IF lo >= hi THEN lo
  ELSE LET mid == (lo + hi + 1) \div 2
       IN IF mid * mid <= n THEN SqrtSearch(n, mid, hi)
          ELSE SqrtSearch(n, lo, mid - 1)

\* Math.sqrt on integers: the nearest integer to the square root of n
Sqrt(n) ==
  LET r == SqrtSearch(n, 0, 46340)
  IN IF n - r * r > r THEN r + 1 ELSE r

\* ------------------------------------------------------------ THREE.Vector3
Zero3 == <<0, 0, 0>>
Up3 == <<0, Scale, 0>>

sub(u, v) == <<u[1] - v[1], u[2] - v[2], u[3] - v[3]>>
add(u, v) == <<u[1] + v[1], u[2] + v[2], u[3] + v[3]>>
dot(u, v) == u[1] * v[1] + u[2] * v[2] + u[3] * v[3]
lengthSq(v) == dot(v, v)
cross(u, v) ==
  << u[2] * v[3] - u[3] * v[2],
     u[3] * v[1] - u[1] * v[3],
     u[1] * v[2] - u[2] * v[1] >>

\* v * (num / den), each component rounded
scaleBy(v, num, den) ==
  << RoundDiv(v[1] * num, den), RoundDiv(v[2] * num, den), RoundDiv(v[3] * num, den) >>

\* Vector3.normalize(): a vector of length Scale (the zero vector stays zero)
normalize(v) ==
  LET len == Sqrt(lengthSq(v))
  IN IF len = 0 THEN Zero3 ELSE scaleBy(v, Scale, len)

\* projectOnto(v, n): n * (v.n / n.n), zero when n is zero
projectOnto(v, n) ==
  LET nn == lengthSq(n)
  IN IF nn = 0 THEN Zero3 ELSE scaleBy(n, dot(v, n), nn)

\* reflect(v, n): v - 2 (v.nUnit) nUnit
reflect(v, n) ==
  LET nUnit == normalize(n)
  IN sub(v, scaleBy(nUnit, 2 * dot(v, nUnit), Scale * Scale))

\* 1e-6, the barycentric tolerance, as its inverse
BaryTolInv == 1000000

\* pointInTriangle(p, a, b, c): u >= -1e-6, v >= -1e-6, u + v <= 1 + 1e-6 for
\* the barycentric coordinates u = uNum / denom, v = vNum / denom (exact)
pointInTriangle(p, a, b, c) ==
  LET v0 == sub(c, a)
      v1 == sub(b, a)
      v2 == sub(p, a)
      dot00 == dot(v0, v0)
      dot01 == dot(v0, v1)
      dot02 == dot(v0, v2)
      dot11 == dot(v1, v1)
      dot12 == dot(v1, v2)
      denom == dot00 * dot11 - dot01 * dot01
      uNum == dot11 * dot02 - dot01 * dot12
      vNum == dot00 * dot12 - dot01 * dot02
      tol == denom \div BaryTolInv
  IN IF denom = 0 THEN FALSE
     ELSE /\ uNum >= -tol
          /\ vNum >= -tol
          /\ uNum + vNum - denom <= tol

\* ------------------------------------------------------------------- faces
\* triangleNormal(a, b, c): the unit normal (b - a) x (c - a)
triangleNormal(a, b, c) == normalize(cross(sub(b, a), sub(c, a)))

\* triangleCentroid(a, b, c): the mean of the three vertices
triangleCentroid(a, b, c) ==
  << RoundDiv(a[1] + b[1] + c[1], 3),
     RoundDiv(a[2] + b[2] + c[2], 3),
     RoundDiv(a[3] + b[3] + c[3], 3) >>

\* a Face as buildTerrainFaces stores it: the normal and the centroid are those
\* of the stored vertex order
mkFace(id, a, b, c) ==
  [id |-> id, a |-> a, b |-> b, c |-> c,
   normal |-> triangleNormal(a, b, c), centroid |-> triangleCentroid(a, b, c)]

\* a horizontal triangle at height h over x0..x1, half-width w at x0, upward normal
FlatTri(id, h, x0, x1, w) == mkFace(id, <<x0, h, -w>>, <<x0, h, w>>, <<x1, h, 0>>)

\* the same footprint wound the other way: the normal points down
DownTri(id, h, x0, x1, w) == mkFace(id, <<x0, h, -w>>, <<x1, h, 0>>, <<x0, h, w>>)

\* a floor, a small plateau listed twice at the same height, a downward-facing
\* sheet between them and a vertical wall
FacesStacked ==
  << FlatTri(0, 0, 560, 620, 40),
     FlatTri(1, 10, 580, 596, 16),
     FlatTri(2, 10, 580, 596, 16),
     DownTri(3, 5, 560, 620, 40),
     mkFace(4, <<590, 0, -10>>, <<590, 10, 0>>, <<590, 0, 10>>) >>

\* a ramp rising with x (unit normal (-0.6, 0.8, 0)) over a floor
FacesSlope ==
  << mkFace(0, <<560, 0, -40>>, <<560, 0, 40>>, <<600, 30, 0>>),
     FlatTri(1, 0, 540, 620, 60) >>

\* a low ledge that ends before the start coordinates: nothing under the start
FacesGap == << FlatTri(0, -30, 560, 586, 40) >>

\* the face collections the Terrain may hand to the Ball
FaceSets == { FacesStacked, FacesSlope, FacesGap }

\* the initialPosition props: near the +x bound of the auto-reset, just above its
\* vertical threshold
StartSet == { <<590, -500, 0>> }

\* ------------------------------------------------------------ ground query
NoFace == 0 - 1
NoGround == [ok |-> FALSE, y |-> 0, normal |-> Zero3, id |-> NoFace]

\* 1e-4, the near-vertical threshold on |normal.y|, as its inverse
NearVerticalInv == 10000

\* Math.abs(n.y) < 1e-4
nearVertical(n) == Abs(n[2]) * NearVerticalInv < Scale

\* a plane height with the sign of the slope term flipped
planeYAdded(f, x, z) ==
  f.a[2] + RoundDiv(f.normal[1] * (x - f.a[1]) + f.normal[3] * (z - f.a[3]), f.normal[2])

\* f.a.y - (n.x * dx + n.z * dz) / n.y
planeY(f, x, z) ==
  f.a[2] - RoundDiv(f.normal[1] * (x - f.a[1]) + f.normal[3] * (z - f.a[3]), f.normal[2])

\* does face f pass both tests of the scan at (x, z)
qualifies(f, x, z) ==
  /\ ~nearVertical(f.normal)
  /\ pointInTriangle(<<x, planeY(f, x, z), z>>, f.a, f.b, f.c)

\* a scan that lets a later face of equal height replace the best
replacesBestOrEqual(y, best) == ~best.ok \/ y >= best.y

\* !best || y > best.y
replacesBest(y, best) == ~best.ok \/ y > best.y

RECURSIVE groundScan(_, _, _, _, _)
groundScan(x, z, fs, i, best) ==
  IF i > Len(fs) THEN best
  ELSE LET f == fs[i]
       IN IF nearVertical(f.normal) THEN groundScan(x, z, fs, i + 1, best)
          ELSE LET y == planeY(f, x, z)
               IN IF ~pointInTriangle(<<x, y, z>>, f.a, f.b, f.c)
                    THEN groundScan(x, z, fs, i + 1, best)
                  ELSE IF replacesBest(y, best)
                    THEN groundScan(x, z, fs, i + 1,
                                    [ok |-> TRUE, y |-> y, normal |-> f.normal, id |-> f.id])
                  ELSE groundScan(x, z, fs, i + 1, best)

\* getGroundInfo(x, z, faces): the scan over the faces in list order, from best = null
getGroundInfo(x, z, fs) == groundScan(x, z, fs, 1, NoGround)

\* ------------------------------------------------- terrain mesh generator
\* sines and cosines count 1/TrigScale; their arguments count tenths of a radian
TrigScale == 10 * 10 * 10

\* Math.sin(k / 10), k = 0..105
SinTable ==
  << 0, 100, 199, 296, 389, 479, 565, 644, 717, 783, 841, 891,
     932, 964, 985, 997, 1000, 992, 974, 946, 909, 863, 808, 746,
     675, 598, 516, 427, 335, 239, 141, 42, -58, -158, -256, -351,
     -443, -530, -612, -688, -757, -818, -872, -916, -952, -978, -994, -1000,
     -996, -982, -959, -926, -883, -832, -773, -706, -631, -551, -465, -374,
     -279, -182, -83, 17, 117, 215, 312, 405, 494, 578, 657, 729,
     794, 850, 899, 938, 968, 988, 999, 999, 989, 970, 941, 902,
     855, 798, 734, 663, 585, 501, 412, 319, 223, 124, 25, -75,
     -174, -272, -366, -458, -544, -625, -700, -768, -828, -880 >>

\* Math.cos(k / 10), k = 0..105
CosTable ==
  << 1000, 995, 980, 955, 921, 878, 825, 765, 697, 622, 540, 454,
     362, 267, 170, 71, -29, -129, -227, -323, -416, -505, -589, -666,
     -737, -801, -857, -904, -942, -971, -990, -999, -998, -987, -967, -936,
     -897, -848, -791, -726, -654, -575, -490, -401, -307, -211, -112, -12,
     87, 187, 284, 378, 469, 554, 635, 709, 776, 835, 886, 927,
     960, 983, 997, 1000, 993, 977, 950, 914, 869, 816, 754, 685,
     608, 526, 439, 347, 251, 153, 54, -46, -146, -244, -339, -431,
     -519, -602, -679, -749, -811, -865, -911, -948, -975, -992, -1000, -997,
     -985, -962, -930, -889, -839, -781, -714, -641, -561, -476 >>

sin(tenths) == SinTable[tenths + 1]
cos(tenths) == CosTable[tenths + 1]

\* pseudoRandom(x, y) = frac(sin(x * 12.9898 + y * 78.233) * 43758.5453) for the
\* grid indices x, y = 0..5, in 1/TrigScale
RandomTable ==
  << << 0, 183, 27, 269, 211, 56 >>,
     << 922, 740, 74, 420, 825, 156 >>,
     << 57, 564, 364, 296, 539, 112 >>,
     << 558, 455, 335, 903, 34, 810 >>,
     << 374, 272, 941, 618, 107, 199 >>,
     << 453, 823, 538, 906, 267, 188 >> >>

pseudoRandom(x, y) == RandomTable[x + 1][y + 1]

\* Math.sin(i * fi) * Math.cos(j * fj) * amp: fi and fj in tenths, amp in hundredths
wave(i, fi, j, fj, amp) == RoundDiv(sin(i * fi) * cos(j * fj) * amp, TrigScale * 100)

\* generateTerrainHeight(i, j, type, height), height and result in 1/Scale units
generateTerrainHeight(i, j, type, height) ==
  CASE type = "smooth" -> 0
    [] type = "hills" ->
         LET hill1 == wave(i, 5, j, 5, 80)
             hill2 == wave(i, 3, j, 4, 60)
         IN RoundDiv((hill1 + hill2) * height * 5, TrigScale * 10)
    [] type = "valleys" ->
         LET valley1 == wave(i, 4, j, 4, 120)
             valley2 == wave(i, 7, j, 6, 80)
         IN RoundDiv((valley1 + valley2) * height * 8, TrigScale * 10)
    [] type = "rough" ->
         LET noise1 == wave(i, 8, j, 8, 40)
             noise2 == wave(i, 13, j, 9, 30)
             noise3 == wave(i, 21, j, 18, 15)
             deterministicNoise == RoundDiv((pseudoRandom(i, j) - TrigScale \div 2) * 3, 10)
         IN RoundDiv((noise1 + noise2 + noise3 + deterministicNoise) * height * 6,
                     TrigScale * 10)
    [] OTHER -> 0

\* vertices[i][j] for i, j = 0..divisions
terrainVertices(size, divisions, height, type) ==
  LET step == RoundDiv(size, divisions)
  IN [ i \in 0..divisions |->
       [ j \in 0..divisions |->
         << RoundDiv(-size, 2) + i * step,
            generateTerrainHeight(i, j, type, height),
            RoundDiv(-size, 2) + j * step >> ] ]

\* an id counter that is never advanced
nextIdStuck(id) == id

\* id++
nextId(id) == id + 1

\* a first triangle stored in the order a, b, c
firstTriangleClockwise(id, a, b, c) == mkFace(id, a, b, c)

\* { id, a, b: c, c: b, normal: triangleNormal(a, c, b), centroid: triangleCentroid(a, c, b) }
firstTriangle(id, a, b, c) == mkFace(id, a, c, b)

\* { id, a: b, b: c, c: d, normal: triangleNormal(b, c, d), centroid: triangleCentroid(b, c, d) }
secondTriangle(id, b, c, d) == mkFace(id, b, c, d)

\* the two loops over the cells: cell (i, j) pushes its two faces, each taking
\* the current id and advancing it
RECURSIVE cellLoop(_, _, _, _, _, _)
cellLoop(V, divisions, i, j, fs, id) ==
  IF i >= divisions THEN fs
  ELSE IF j >= divisions THEN cellLoop(V, divisions, i + 1, 0, fs, id)
  ELSE LET a == V[i][j]
           b == V[i + 1][j]
           c == V[i][j + 1]
           d == V[i + 1][j + 1]
           id2 == nextId(id)
       IN cellLoop(V, divisions, i, j + 1,
                   Append(Append(fs, firstTriangle(id, a, b, c)),
                          secondTriangle(id2, b, c, d)),
                   nextId(id2))

\* buildTerrainFaces({ size, divisions, height, type }).  With divisions <= 0 the
\* loops over the cells do not run and the empty list is returned; nothing is thrown.
buildTerrainFaces(size, divisions, height, type) ==
  IF divisions <= 0 THEN << >>
  ELSE cellLoop(terrainVertices(size, divisions, height, type), divisions, 0, 0, << >>, 0)

\* the parameters handed to the generator: profiles, sizes (0.6 and 1.0), height
\* scales (0, 0.5 and 1.0) and subdivision counts, non-positive ones included
TerrainTypes == { "smooth", "hills", "valleys", "rough" }
SizeSet == { 60, 100 }
HeightSet == { 0, 50, 100 }
DivisionsSet == (0 - 1)..MaxDivisions

\* --------------------------------------------------------- program constants
\* radius = 0.25, the Ball's default radius prop, in 1/Scale units
radius == 25
\* speed = 5 units/sec
speed == 5
\* gravity = -9.81, in 1/Scale units per second squared
gravity == -981
\* the damping factor 0.9 = DampNum / DampDen
DampNum == 9
DampDen == 10
\* Math.min(dt, 1 / 60)
FrameRate == 60
\* terrainSize = 10 and the factor 0.6 = BoundNum / BoundDen of the auto-reset
terrainSize == 10
BoundNum == 6
BoundDen == 10
\* resetThreshold = -5
resetThreshold == -5
\* the contact notification is throttled to one per 50 ms, the clear to one per 100 ms
ContactThrottle == 50
ClearThrottle == 100

\* the longest step, 1/60 s, in frame-time units
MaxDelta == TimeScale \div FrameRate

\* the frame times the host supplies: 0, 1/120 s and 1/30 s (clamped to 1/60 s)
DtSet == { 0, MaxDelta \div 2, 2 * MaxDelta }

\* milliseconds of performance.now() between two frames: less than either throttle
\* interval, and more than both
ClockAdvance == { 40, 120 }

\* the keys the handlers listen to
KeySet == { "w", "a", "s", "d" }

\* ------------------------------------------------------------------- state
VARIABLES
  terrainFaces,       \* Terrain: the faces of useMemo, the ones drawn
  faces,              \* the faces prop of the Ball (Index: useState<Face[]>([]))
  pending,            \* the effects queued by the last render and not yet run
  startPos,           \* the initialPosition prop as a vector
  position,           \* meshRef.current.position
  velocity,           \* velocityRef.current
  keys,               \* keys.current: the set of keys that are down
  currentFaceId,      \* the tracked supporting face, NoFace for null
  contactRef,         \* contactRef.current
  incomingRef,        \* incomingRef.current
  normalRef,          \* normalRef.current
  projectionRef,      \* projectionRef.current
  reflectionRef,      \* reflectionRef.current
  vectors,            \* Index: the vectors last passed to onVectorUpdate
  highlightedFaceId,  \* Index: the id last passed to onHighlightFace / cleared by Reset
  resetCount,         \* Index: resetCount
  sinceVectorUpdate,  \* performance.now() - lastVectorUpdate.current, saturated
  sinceClear,         \* time since the last zero-vector notification, saturated, or Never
  sinceAirClear,      \* time since the last one emitted by the no-contact branch
  frames,             \* frames run so far
  events,             \* events delivered so far
  ev,                 \* what the last operation was and the step's intermediate values
  keyboardControl,    \* the keyboardControl prop
  launched,           \* the launched prop
  launchVector,       \* the launchVector prop
  prevLaunched,       \* prevLaunched.current
  launchEdge,         \* the last render took launched from false to true without
                      \* keyboardControl, and its launch effect has not run yet
  impact,             \* the impact state: the vectors of the last bounce, or none
  gen                 \* the terrain generator: its parameters, the faces built, the probe

vars ==
  << terrainFaces, faces, pending, startPos, position, velocity, keys, currentFaceId,
     contactRef, incomingRef, normalRef, projectionRef, reflectionRef, vectors,
     highlightedFaceId, resetCount, sinceVectorUpdate, sinceClear, sinceAirClear, frames,
     events, ev, keyboardControl, launched, launchVector, prevLaunched, launchEdge, impact,
     gen >>

\* the body and what is displayed of it
bodyVars ==
  << position, velocity, currentFaceId, contactRef, incomingRef, normalRef, projectionRef,
     reflectionRef, vectors, highlightedFaceId >>

\* the clocks
clockVars == << sinceVectorUpdate, sinceClear, sinceAirClear >>

\* the props and refs of the legacy launch mode
legacyVars ==
  << keyboardControl, launched, launchVector, prevLaunched, launchEdge, impact >>

ZeroVectors ==
  [velocity |-> Zero3, normal |-> Zero3, projection |-> Zero3, reflection |-> Zero3]

\* readings above ClearThrottle all compare alike
Saturated == ClearThrottle + 1

\* no zero-vector notification has been emitted yet
Never == Saturated + 1

\* the time since a notification, adv later
gapSince(since, adv) == IF since = Never THEN Never ELSE Min(since + adv, Saturated)

\* impact === null
NoImpact == [set |-> FALSE]

\* the generator while nothing calls it
GenIdle ==
  [phase |-> "idle", type |-> "smooth", size |-> 0, divisions |-> 0, height |-> 0,
   faces |-> << >>, threw |-> FALSE, again |-> FALSE, probe |-> 0, hit |-> NoGround]

\* the record of an operation that is not a frame
Event(kind) ==
  [kind |-> kind, delta |-> 0, input |-> Zero3, pos0 |-> Zero3, vel0 |-> Zero3,
   posInt |-> Zero3, velInt |-> Zero3, vecNote |-> "none", hiNote |-> "none",
   gapClear |-> 0, gapAirClear |-> 0, hit |-> NoFace, stale |-> {}, push |-> 0,
   dt |-> 0]

\* Index, Terrain and Ball after their first render and the effects of the mount:
\* the Terrain has built its faces and called onFacesReady, Index has not yet
\* rendered the Ball with them; the mesh is at the origin and every ref at its
\* initial value.  The reset effect of the mount has returned at once
\* (faces.length === 0).
MountInit(fs) ==
  /\ terrainFaces = fs
  /\ faces = << >>
  /\ pending = { "ready" }
  /\ startPos \in StartSet
  /\ position = Zero3
  /\ velocity = Zero3
  /\ keys = {}
  /\ currentFaceId = NoFace
  /\ contactRef = Zero3
  /\ incomingRef = Zero3
  /\ normalRef = Up3
  /\ projectionRef = Zero3
  /\ reflectionRef = Zero3
  /\ vectors = ZeroVectors
  /\ highlightedFaceId = NoFace
  /\ resetCount = 0
  /\ sinceClear = Never
  /\ sinceAirClear = Never
  /\ frames = 0
  /\ events = 0
  /\ ev = Event("mount")
  /\ launched = FALSE
  /\ prevLaunched = FALSE
  /\ launchEdge = FALSE
  /\ impact = NoImpact

\* the page: Index mounts the Ball with keyboardControl and launchVector [0, 0, 0]
Init ==
  /\ \E fs \in FaceSets : MountInit(fs)
  /\ sinceVectorUpdate \in { 0, Saturated }
  /\ keyboardControl = TRUE
  /\ launchVector = Zero3
  /\ gen = GenIdle

\* nothing is queued: the last render's effects have run
settled == pending = {}

\* ----------------------------------------------------------- key handlers
\* keydown: keys.current[k] = true
down(k) ==
  /\ events < MaxEvents
  /\ frames + events < MaxSteps
  /\ settled
  /\ keyboardControl
  /\ keys' = keys \cup {k}
  /\ events' = events + 1
  /\ ev' = Event("key")
  /\ UNCHANGED << terrainFaces, faces, pending, startPos, bodyVars, resetCount, clockVars,
                  frames, legacyVars, gen >>

\* keyup: keys.current[k] = false
up(k) ==
  /\ events < MaxEvents
  /\ frames + events < MaxSteps
  /\ settled
  /\ keyboardControl
  /\ keys' = keys \ {k}
  /\ events' = events + 1
  /\ ev' = Event("key")
  /\ UNCHANGED << terrainFaces, faces, pending, startPos, bodyVars, resetCount, clockVars,
                  frames, legacyVars, gen >>

\* ------------------------------------------------------ renders and effects
\* Index.handleReset: launched false, resetCount + 1, the highlight cleared.  The
\* Ball is rendered again and the effects whose dependencies changed are queued.
handleReset ==
  /\ events < MaxEvents
  /\ frames + events < MaxSteps
  /\ settled
  /\ events' = events + 1
  /\ resetCount' = resetCount + 1
  /\ highlightedFaceId' = NoFace
  /\ launched' = FALSE
  /\ launchEdge' = FALSE
  /\ pending' = IF launched THEN { "reset", "launch" } ELSE { "reset" }
  /\ ev' = Event("press")
  /\ UNCHANGED << terrainFaces, faces, startPos, position, velocity, keys, currentFaceId,
                  contactRef, incomingRef, normalRef, projectionRef, reflectionRef, vectors,
                  clockVars, frames, keyboardControl, launchVector, prevLaunched, impact,
                  gen >>

\* Index.setTerrainType: the Terrain is rendered with another profile, useMemo
\* builds its face collection fs, and the effect that reports it is queued
setTerrainType(fs) ==
  /\ events < MaxEvents
  /\ frames + events < MaxSteps
  /\ settled
  /\ fs # terrainFaces
  /\ events' = events + 1
  /\ terrainFaces' = fs
  /\ pending' = { "ready" }
  /\ ev' = Event("type")
  /\ UNCHANGED << faces, startPos, bodyVars, keys, resetCount, clockVars, frames,
                  legacyVars, gen >>

\* the Terrain's effect: onFacesReady(faces), which is Index.setFaces.  The Ball is
\* rendered with the new faces prop and its reset effect is queued.
onFacesReady ==
  /\ "ready" \in pending
  /\ faces' = terrainFaces
  /\ pending' = { "faces" }
  /\ ev' = Event("ready")
  /\ UNCHANGED << terrainFaces, startPos, bodyVars, keys, resetCount, clockVars, frames,
                  events, legacyVars, gen >>

\* a rest height that forgets the radius
restYNoRadius(g, start) == IF g.ok THEN g.y ELSE start[2]

\* g ? g.y + radius : startPos.y
restY(g, start) == IF g.ok THEN g.y + radius ELSE start[2]

\* faces.length === 0: the effect returns before touching anything
effectSkipped(fs) == Len(fs) = 0

\* the effect of [resetCount, faces]
resetEffect ==
  IF effectSkipped(faces)
    THEN UNCHANGED << position, contactRef, normalRef, projectionRef, reflectionRef,
                      currentFaceId, highlightedFaceId, impact >>
    ELSE LET g == getGroundInfo(startPos[1], startPos[3], faces)
             y == restY(g, startPos)
         IN /\ position' = <<startPos[1], y, startPos[3]>>
            /\ contactRef' = <<startPos[1], y - radius, startPos[3]>>
            /\ normalRef' = IF g.ok THEN g.normal ELSE Up3
            /\ projectionRef' = Zero3
            /\ reflectionRef' = Zero3
            /\ impact' = NoImpact
            /\ currentFaceId' = IF g.ok THEN g.id ELSE NoFace
            /\ highlightedFaceId' = IF g.ok THEN g.id ELSE highlightedFaceId

\* did the reset effect above set the velocity to zero
resetRan == pending \cap { "reset", "faces" } # {} /\ ~effectSkipped(faces)

\* the effect of [launched, launchVector, keyboardControl], run after the reset
\* effect of the same render: the velocity it leaves
launchEffect(v) ==
  IF ~keyboardControl /\ launched /\ ~prevLaunched THEN launchVector ELSE v

\* the Ball's queued effects, in the order of their declaration
ballEffects ==
  /\ pending \cap { "reset", "faces", "launch" } # {}
  /\ pending' = {}
  /\ IF pending \cap { "reset", "faces" } # {}
       THEN resetEffect
       ELSE UNCHANGED << position, contactRef, normalRef, projectionRef, reflectionRef,
                         impact, currentFaceId, highlightedFaceId >>
  /\ LET v == IF resetRan THEN Zero3 ELSE velocity
     IN velocity' = IF "launch" \in pending THEN launchEffect(v) ELSE v
  /\ prevLaunched' = IF "launch" \in pending /\ ~keyboardControl THEN launched
                     ELSE prevLaunched
  /\ launchEdge' = FALSE
  /\ ev' = [Event(IF "faces" \in pending THEN "faces"
                  ELSE IF "reset" \in pending THEN "reset" ELSE "launch")
             EXCEPT !.hiNote = IF resetRan /\ currentFaceId' # NoFace
                                 THEN "face" ELSE "none"]
  /\ UNCHANGED << terrainFaces, faces, startPos, keys, incomingRef, vectors, resetCount,
                  clockVars, frames, events, keyboardControl, launched, launchVector, gen >>

\* ---------------------------------------------------------------- useFrame
\* (keys.d ? 1 : 0) - (keys.a ? 1 : 0), 0, (keys.w ? 1 : 0) - (keys.s ? 1 : 0)
pressed(k) == IF k \in keys THEN 1 ELSE 0
inputVector == << pressed("d") - pressed("a"), 0, pressed("w") - pressed("s") >>

\* digits kept while normalising the input direction
InputPrecision == 100 * 100

\* the input scaled by the speed without normalising it
inputVelocityRaw(input) == scaleBy(input, speed * Scale, 1)

\* input.normalize().multiplyScalar(speed), in 1/Scale units
inputVelocity(input) ==
  scaleBy(input, speed * Scale * InputPrecision,
          Sqrt(lengthSq(input) * InputPrecision * InputPrecision))

\* velocity.x *= 0.9 (and likewise z)
damp(c) == RoundDiv(c * DampNum, DampDen)

\* the horizontal velocity after the input / damping branch; y is left alone
afterInput(v, input) ==
  IF lengthSq(input) > 0
    THEN LET iv == inputVelocity(input) IN << iv[1], v[2], iv[3] >>
    ELSE << damp(v[1]), v[2], damp(v[3]) >>

\* gravity applied for a whole 1/60 s whatever the frame time
gravityStepFixed(delta) == RoundDiv(gravity * MaxDelta, TimeScale)

\* gravity * delta
gravityStep(delta) == RoundDiv(gravity * delta, TimeScale)

\* a step that forgets the gravity
withoutGravity(v, delta) == v

\* velocity.y += gravity * delta
afterGravity(v, delta) == << v[1], v[2] + gravityStep(delta), v[3] >>

\* position.addScaledVector(velocity, delta)
addScaledVector(p, v, delta) == add(p, scaleBy(v, delta, TimeScale))

\* an auto-reset that checks the vertical threshold only
outOfBoundsVerticalOnly(p) == p[2] < resetThreshold * Scale

\* an auto-reset that forgets the vertical threshold
outOfBoundsHorizontalOnly(p) ==
  \/ Abs(p[1]) * BoundDen > terrainSize * Scale * BoundNum
  \/ Abs(p[3]) * BoundDen > terrainSize * Scale * BoundNum

\* pos.y < resetThreshold || |pos.x| > terrainSize * 0.6 || |pos.z| > terrainSize * 0.6
outOfBounds(p) ==
  \/ p[2] < resetThreshold * Scale
  \/ Abs(p[1]) * BoundDen > terrainSize * Scale * BoundNum
  \/ Abs(p[3]) * BoundDen > terrainSize * Scale * BoundNum

\* a collision test against the face height itself
touchesGroundNoRadius(g, p) == g.ok /\ p[2] <= g.y

\* g && position.y <= g.y + radius
touchesGround(g, p) == g.ok /\ p[2] <= g.y + radius

\* a snap that puts the centre on the face
snapYNoRadius(g) == g.y

\* position.y = g.y + radius
snapY(g) == g.y + radius

\* Math.max(0, velocity.y)
clampVy(vy) == Max(0, vy)

\* now - lastVectorUpdate.current > 50
contactDue(elapsed) == elapsed > ContactThrottle

\* a no-contact branch that notifies whenever it runs
clearAlways(elapsed) == TRUE

\* now - lastVectorUpdate.current > 100
clearDue(elapsed) == elapsed > ClearThrottle

\* the auto-reset branch: back to the start, everything cleared, return
autoReset(elapsed, rec) ==
  LET g == getGroundInfo(startPos[1], startPos[3], faces)
  IN /\ position' = << startPos[1], restY(g, startPos), startPos[3] >>
     /\ velocity' = Zero3
     /\ vectors' = ZeroVectors
     /\ currentFaceId' = NoFace
     /\ highlightedFaceId' = NoFace
     /\ sinceVectorUpdate' = elapsed
     /\ sinceClear' = 0
     /\ sinceAirClear' = rec.gapAirClear
     /\ ev' = [rec EXCEPT !.kind = "recover", !.vecNote = "clear", !.hiNote = "null"]
     /\ UNCHANGED << contactRef, incomingRef, normalRef, projectionRef, reflectionRef >>

\* an incoming vector that keeps the vertical component
wholeVelocity(v) == v

\* new THREE.Vector3(velocityRef.current.x, 0, velocityRef.current.z)
horizontalOf(v) == << v[1], 0, v[3] >>

\* a collision branch that refreshes the stored vectors only when it notifies
groundContactThrottled(g, p1, v1, elapsed, rec) ==
  LET horizontalVel == << v1[1], 0, v1[3] >>
      notify == contactDue(elapsed)
      changed == g.id # currentFaceId
  IN /\ position' = << p1[1], snapY(g), p1[3] >>
     /\ velocity' = << v1[1], clampVy(v1[2]), v1[3] >>
     /\ contactRef' = IF notify THEN << p1[1], g.y, p1[3] >> ELSE contactRef
     /\ normalRef' = IF notify THEN g.normal ELSE normalRef
     /\ incomingRef' = IF notify THEN horizontalVel ELSE incomingRef
     /\ projectionRef' = IF notify THEN projectOnto(horizontalVel, g.normal) ELSE projectionRef
     /\ reflectionRef' = IF notify THEN reflect(horizontalVel, g.normal) ELSE reflectionRef
     /\ vectors' = IF notify
                     THEN [velocity |-> horizontalVel, normal |-> g.normal,
                           projection |-> projectOnto(horizontalVel, g.normal),
                           reflection |-> reflect(horizontalVel, g.normal)]
                     ELSE vectors
     /\ sinceVectorUpdate' = IF notify THEN 0 ELSE elapsed
     /\ sinceClear' = rec.gapClear
     /\ sinceAirClear' = rec.gapAirClear
     /\ currentFaceId' = g.id
     /\ highlightedFaceId' = IF changed THEN g.id ELSE highlightedFaceId
     /\ ev' = [rec EXCEPT !.kind = "contact",
                          !.vecNote = IF notify THEN "contact" ELSE "none",
                          !.hiNote = IF changed THEN "face" ELSE "none"]

\* the collision branch: snap, clamp, contact vectors, throttled notification
groundContact(g, p1, v1, elapsed, rec) ==
  LET horizontalVel == horizontalOf(v1)
      projection == projectOnto(horizontalVel, g.normal)
      reflection == reflect(horizontalVel, g.normal)
      notify == contactDue(elapsed)
      changed == g.id # currentFaceId
  IN /\ position' = << p1[1], snapY(g), p1[3] >>
     /\ velocity' = << v1[1], clampVy(v1[2]), v1[3] >>
     /\ contactRef' = << p1[1], g.y, p1[3] >>
     /\ normalRef' = g.normal
     /\ incomingRef' = horizontalVel
     /\ projectionRef' = projection
     /\ reflectionRef' = reflection
     /\ vectors' = IF notify
                     THEN [velocity |-> horizontalVel, normal |-> g.normal,
                           projection |-> projection, reflection |-> reflection]
                     ELSE vectors
     /\ sinceVectorUpdate' = IF notify THEN 0 ELSE elapsed
     /\ sinceClear' = rec.gapClear
     /\ sinceAirClear' = rec.gapAirClear
     /\ currentFaceId' = g.id
     /\ highlightedFaceId' = IF changed THEN g.id ELSE highlightedFaceId
     /\ ev' = [rec EXCEPT !.kind = "contact",
                          !.vecNote = IF notify THEN "contact" ELSE "none",
                          !.hiNote = IF changed THEN "face" ELSE "none"]

\* the else branch: no ground collision
noContact(p1, v1, elapsed, rec) ==
  LET notify == clearDue(elapsed)
      changed == currentFaceId # NoFace
  IN /\ position' = p1
     /\ velocity' = v1
     /\ currentFaceId' = NoFace
     /\ highlightedFaceId' = IF changed THEN NoFace ELSE highlightedFaceId
     /\ vectors' = IF notify THEN ZeroVectors ELSE vectors
     /\ sinceVectorUpdate' = IF notify THEN 0 ELSE elapsed
     /\ sinceClear' = IF notify THEN 0 ELSE rec.gapClear
     /\ sinceAirClear' = IF notify THEN 0 ELSE rec.gapAirClear
     /\ ev' = [rec EXCEPT !.kind = "air",
                          !.vecNote = IF notify THEN "clear" ELSE "none",
                          !.hiNote = IF changed THEN "null" ELSE "none"]
     /\ UNCHANGED << contactRef, incomingRef, normalRef, projectionRef, reflectionRef >>

\* the keyboardControl branch of the step
keyboardStep(delta, adv, rec0) ==
  LET input == inputVector
      v1 == afterGravity(afterInput(velocity, input), delta)
      p1 == addScaledVector(position, v1, delta)
      elapsed == Min(sinceVectorUpdate + adv, Saturated)
      rec == [rec0 EXCEPT !.input = input, !.posInt = p1, !.velInt = v1]
  IN /\ IF outOfBounds(p1)
          THEN autoReset(elapsed, rec)
          ELSE LET g == getGroundInfo(p1[1], p1[3], faces)
               IN IF touchesGround(g, p1)
                    THEN groundContact(g, p1, v1, elapsed, rec)
                    ELSE noContact(p1, v1, elapsed, rec)
     /\ UNCHANGED impact

\* ------------------------------------------------------------- legacy step
\* velocity.y -= 9.8 * delta, in 1/Scale units per second squared
legacyGravity == 980
\* v.lengthSq() < 0.01, the threshold as its inverse
MinSpeedSqInv == 100
\* maxCheckDistance = radius + 2.0
CullDistance == 200
\* faces.length > 100
CullThreshold == 100
\* penetration + 1e-3, the epsilon as its inverse
PushEpsInv == 1000
\* until: performance.now() + 1500
ImpactDuration == 1500

\* f.centroid.distanceToSquared(p) < maxCheckDistance * maxCheckDistance
nearby(f, p) ==
  lengthSq(sub(f.centroid, p)) < (radius + CullDistance) * (radius + CullDistance)

\* nearbyFaces
nearbyFaces(fs, p) ==
  IF Len(fs) > CullThreshold THEN SelectSeq(fs, LAMBDA f : nearby(f, p)) ELSE fs

\* v.dot(n) < 0
approaching(v, n) == dot(v, n) < 0

\* n.dot(p.clone().sub(f.a)), n of length Scale
signedDist(f, p) == RoundDiv(dot(f.normal, sub(p, f.a)), Scale)

\* p.clone().sub(n.clone().multiplyScalar(dist))
projPoint(f, p) == sub(p, scaleBy(f.normal, signedDist(f, p), Scale))

\* the three tests of the loop body: none of the continue statements is taken
collides(f, p, v) ==
  /\ approaching(v, f.normal)
  /\ ~(signedDist(f, p) > radius)
  /\ pointInTriangle(projPoint(f, p), f.a, f.b, f.c)

\* for (const f of nearbyFaces) { ... break }: the index of the face at which the
\* loop breaks, 0 when it runs to the end
RECURSIVE bounceLoop(_, _, _, _)
bounceLoop(fs, i, p, v) ==
  IF i > Len(fs) THEN 0
  ELSE IF collides(fs[i], p, v) THEN i
  ELSE bounceLoop(fs, i + 1, p, v)

\* a push by the penetration alone
pushDepthNoEps(penetration) == penetration * PushEpsInv

\* penetration + 1e-3, in units of 1 / (Scale * PushEpsInv)
pushDepth(penetration) == penetration * PushEpsInv + Scale

\* if (penetration > 0) p.add(n.clone().multiplyScalar(penetration + 1e-3))
pushedOut(f, p) ==
  LET penetration == radius - signedDist(f, p)
  IN IF penetration > 0
       THEN add(p, scaleBy(f.normal, pushDepth(penetration), Scale * PushEpsInv))
       ELSE p

\* impact && performance.now() > impact.until, for the impact of the last render
expired(adv) == impact.set /\ adv > impact.left

\* the impact state a frame leaves when it does not set it: time has passed
aged(adv) ==
  IF impact.set THEN [impact EXCEPT !.left = Max(impact.left - adv, 0 - 1)] ELSE impact

\* the legacy launch mode of the step
legacyStep(delta, adv, rec0) ==
  IF ~launched
    THEN /\ ev' = [rec0 EXCEPT !.kind = "idle", !.posInt = position, !.velInt = velocity]
         /\ impact' = aged(adv)
         /\ UNCHANGED << bodyVars, clockVars >>
    ELSE
      LET v1 == << velocity[1], velocity[2] - RoundDiv(legacyGravity * delta, TimeScale),
                   velocity[3] >>
          p1 == addScaledVector(position, v1, delta)
          rec == [rec0 EXCEPT !.posInt = p1, !.velInt = v1]
          near == nearbyFaces(faces, p1)
          k == bounceLoop(near, 1, p1, v1)
      IN IF lengthSq(v1) * MinSpeedSqInv < Scale * Scale
           THEN /\ position' = p1
                /\ velocity' = v1
                /\ impact' = aged(adv)
                /\ ev' = [rec EXCEPT !.kind = "slow"]
                /\ UNCHANGED << currentFaceId, contactRef, incomingRef, normalRef,
                                projectionRef, reflectionRef, vectors, highlightedFaceId,
                                clockVars >>
         ELSE IF k = 0
           THEN /\ position' = p1
                /\ velocity' = v1
                /\ impact' = IF expired(adv) THEN NoImpact ELSE aged(adv)
                /\ ev' = [rec EXCEPT !.kind = "free"]
                /\ UNCHANGED << currentFaceId, contactRef, incomingRef, normalRef,
                                projectionRef, reflectionRef, vectors, highlightedFaceId,
                                clockVars >>
         ELSE LET f == near[k]
                  reflection == reflect(v1, f.normal)
              IN /\ highlightedFaceId' = f.id
                 /\ position' = pushedOut(f, p1)
                 /\ velocity' = reflection
                 /\ impact' = IF expired(adv) THEN NoImpact
                              ELSE [set |-> TRUE, point |-> projPoint(f, p1),
                                    incoming |-> v1, normal |-> f.normal,
                                    projection |-> projectOnto(v1, f.normal),
                                    reflection |-> reflection, left |-> ImpactDuration]
                 /\ ev' = [rec EXCEPT !.kind = "bounce", !.hit = f.id, !.hiNote = "face",
                                      !.push = IF radius - signedDist(f, p1) > 0
                                                 THEN pushDepth(radius - signedDist(f, p1))
                                                 ELSE 0]
                 /\ UNCHANGED << currentFaceId, contactRef, incomingRef, normalRef,
                                 projectionRef, reflectionRef, vectors, clockVars >>

\* a step that takes the host's frame time as it comes
unclampedDelta(dt) == dt

\* Math.min(dt, 1 / 60)
clampedDelta(dt) == Min(dt, MaxDelta)

\* the body of the useFrame callback: one simulation step.  adv is the time the
\* clock has advanced since the previous frame.
frameCallback(dt, adv) ==
  /\ LET delta == clampedDelta(dt)
         rec0 == [Event("frame") EXCEPT !.dt = dt, !.delta = delta, !.pos0 = position,
                                        !.vel0 = velocity,
                                        !.gapClear = gapSince(sinceClear, adv),
                                        !.gapAirClear = gapSince(sinceAirClear, adv),
                                        !.stale = pending]
     IN IF keyboardControl
          THEN keyboardStep(delta, adv, rec0)
          ELSE legacyStep(delta, adv, rec0)
  /\ UNCHANGED << terrainFaces, faces, pending, startPos, keys, resetCount, events,
                  keyboardControl, launched, launchVector, prevLaunched, launchEdge,
                  gen >>

\* useFrame((_, dt) => ...): the render loop calls the callback, counted
useFrame(dt, adv) ==
  /\ frames < MaxFrames
  /\ frames + events < MaxSteps
  /\ frames' = frames + 1
  /\ frameCallback(dt, adv)

\* ------------------------------------------------------------ specification
Next ==
  \/ \E k \in KeySet : down(k)
  \/ \E k \in KeySet : up(k)
  \/ handleReset
  \/ \E fs \in FaceSets : setTerrainType(fs)
  \/ onFacesReady
  \/ ballEffects
  \/ \E dt \in DtSet, adv \in ClockAdvance : useFrame(dt, adv)

Spec == Init /\ [][Next]_vars

\* --------------------------------------------- the render loop that goes on
\* the frame time of the loop that goes on: the host is slower than 60 frames a
\* second, so every step takes the clamped time
LoopDt == { 2 * MaxDelta }

\* the frame count goes round (1, ..., MaxFrames, 1, ...): it tells a call of the
\* callback from no call, whatever the call does
frameCounted == frames' = (frames % MaxFrames) + 1

\* the render loop calls the callback once more
everyFrame(dt, adv) ==
  /\ frameCounted
  /\ frameCallback(dt, adv)

\* a key pressed before the first frame and held from then on
hold(k) == frames = 0 /\ down(k)

LoopNext ==
  \/ \E k \in KeySet : hold(k)
  \/ onFacesReady
  \/ ballEffects
  \/ \E dt \in LoopDt, adv \in ClockAdvance : everyFrame(dt, adv)

\* requestAnimationFrame keeps calling the callback: the count keeps moving, and
\* only everyFrame moves it
LoopFairness == WF_frames(frameCounted)

LoopSpec == Init /\ [][LoopNext]_vars /\ LoopFairness

\* ------------------------------------------------- the generator on its own
\* everything but the generator
pageVars ==
  << terrainFaces, faces, pending, startPos, bodyVars, keys, resetCount, clockVars, frames,
     events, ev, legacyVars >>

\* a caller about to hand the generator one choice of parameters; no page is running
TerrainInit ==
  /\ \E t \in TerrainTypes, sz \in SizeSet, d \in DivisionsSet, h \in HeightSet :
       gen = [GenIdle EXCEPT !.phase = "params", !.type = t, !.size = sz,
                             !.divisions = d, !.height = h]
  /\ MountInit(<< >>)
  /\ sinceVectorUpdate = 0
  /\ keyboardControl = TRUE
  /\ launchVector = Zero3

\* is there a face list to look at
built == gen.phase \in { "built", "probed" }

\* the call buildTerrainFaces({ size, divisions, height, type }): it returns a list
\* of faces; no statement of it throws for an integer subdivision count
generate ==
  /\ gen.phase = "params"
  /\ gen' = [gen EXCEPT !.phase = "built",
                        !.faces = buildTerrainFaces(gen.size, gen.divisions, gen.height,
                                                    gen.type)]
  /\ UNCHANGED pageVars

\* Terrain's useMemo with another (or the same) terrainType: the call is made
\* again and its list replaces the one before
regenerate(t) ==
  /\ built
  /\ gen' = [gen EXCEPT !.phase = "built", !.type = t, !.again = TRUE, !.probe = 0,
                        !.hit = NoGround,
                        !.faces = buildTerrainFaces(gen.size, gen.divisions, gen.height, t)]
  /\ UNCHANGED pageVars

\* getGroundInfo at the (x, z) of the centroid of the k-th face built
probe(k) ==
  /\ built
  /\ k \in 1..Len(gen.faces)
  /\ gen' = [gen EXCEPT !.phase = "probed", !.probe = k,
                        !.hit = getGroundInfo(gen.faces[k].centroid[1],
                                              gen.faces[k].centroid[3], gen.faces)]
  /\ UNCHANGED pageVars

TerrainNext ==
  \/ generate
  \/ \E t \in TerrainTypes : regenerate(t)
  \/ \E k \in 1..(2 * MaxDivisions * MaxDivisions) : probe(k)

TerrainSpec == TerrainInit /\ [][TerrainNext]_vars

\* ------------------------------------------------- the legacy launch mode
\* the launchVector props: a fast throw along -x, a slower one down and along +x
LaunchSet == { << 0 - 500, 0, 0 >>, << 200, 0 - 100, 0 >> }

\* milliseconds of performance.now() between two frames: a frame later, and after
\* the displayed impact has run out
LegacyClockAdvance == { 40, ImpactDuration + 100 }

\* a parent that mounts the Ball without keyboardControl and with a launch vector
LegacyInit ==
  /\ \E fs \in FaceSets : MountInit(fs)
  /\ sinceVectorUpdate = 0
  /\ keyboardControl = FALSE
  /\ launchVector \in LaunchSet
  /\ gen = GenIdle

\* the parent's setLaunched(b): the Ball is rendered with the new launched prop and
\* its launch effect is queued
setLaunched(b) ==
  /\ events < MaxEvents
  /\ frames + events < MaxSteps
  /\ settled
  /\ b # launched
  /\ events' = events + 1
  /\ launched' = b
  /\ launchEdge' = (b /\ ~keyboardControl)
  /\ pending' = { "launch" }
  /\ ev' = Event("launched")
  /\ UNCHANGED << terrainFaces, faces, startPos, bodyVars, keys, resetCount, clockVars,
                  frames, keyboardControl, launchVector, prevLaunched, impact, gen >>

LegacyNext ==
  \/ handleReset
  \/ \E fs \in FaceSets : setTerrainType(fs)
  \/ \E b \in BOOLEAN : setLaunched(b)
  \/ onFacesReady
  \/ ballEffects
  \/ \E dt \in DtSet, adv \in LegacyClockAdvance : useFrame(dt, adv)

LegacySpec == LegacyInit /\ [][LegacyNext]_vars

\* ----------------------------------------------------------- both modes
\* the Ball mounted by the page or by a parent that launches it
ModesInit == Init \/ LegacyInit

\* ------------------------------------------------ a parent changing the props
\* a parent that mounts the Ball with a launch vector, with or without
\* keyboardControl
PropsInit ==
  /\ \E fs \in FaceSets : MountInit(fs)
  /\ sinceVectorUpdate = 0
  /\ keyboardControl \in BOOLEAN
  /\ launchVector \in LaunchSet
  /\ gen = GenIdle

\* the parent renders the Ball with another launchVector: the launch effect is
\* queued
setLaunchVector(v) ==
  /\ events < MaxEvents
  /\ frames + events < MaxSteps
  /\ settled
  /\ v # launchVector
  /\ events' = events + 1
  /\ launchVector' = v
  /\ launchEdge' = FALSE
  /\ pending' = { "launch" }
  /\ ev' = Event("vector")
  /\ UNCHANGED << terrainFaces, faces, startPos, bodyVars, keys, resetCount, clockVars,
                  frames, keyboardControl, launched, prevLaunched, impact, gen >>

\* the parent renders the Ball with keyboardControl switched: the keyboard effect
\* and the launch effect are queued
setKeyboardControl(b) ==
  /\ events < MaxEvents
  /\ frames + events < MaxSteps
  /\ settled
  /\ b # keyboardControl
  /\ events' = events + 1
  /\ keyboardControl' = b
  /\ launchEdge' = FALSE
  /\ pending' = { "launch" }
  /\ ev' = Event("control")
  /\ UNCHANGED << terrainFaces, faces, startPos, bodyVars, keys, resetCount, clockVars,
                  frames, launched, launchVector, prevLaunched, impact, gen >>

ModesNext == Next \/ LegacyNext

ModesSpec == ModesInit /\ [][ModesNext]_vars

PropsNext ==
  \/ ModesNext
  \/ \E v \in LaunchSet : setLaunchVector(v)
  \/ \E b \in BOOLEAN : setKeyboardControl(b)

PropsSpec == PropsInit /\ [][PropsNext]_vars

\* ------------------------------------------------------------------ claims
\* the last operation was a simulation step
isFrame == ev.kind \in { "contact", "air", "recover" }

\* the ground query at the body's current horizontal position
groundHere == getGroundInfo(position[1], position[3], faces)

\* the ground query at the start coordinates
groundAtStart == getGroundInfo(startPos[1], startPos[3], faces)

\* the ground query at the post-integration position of the last step
groundAtInt == getGroundInfo(ev.posInt[1], ev.posInt[3], faces)

\* C1: a step that is not a recovery and whose post-integration position has a
\* face under it at height h with y <= h + radius ends with position.y = h + radius
\* exactly and with vertical velocity max(0, vy), which is >= 0.
C1_ContactSnap ==
  (isFrame /\ ev.kind # "recover" /\ groundAtInt.ok
           /\ ev.posInt[2] <= groundAtInt.y + radius)
    => /\ position[2] = groundAtInt.y + radius
       /\ velocity[2] = Max(0, ev.velInt[2])
       /\ velocity[2] >= 0

\* a step that lifted a falling body onto the face under it
C1_Witness ==
  /\ ev.kind = "contact"
  /\ ev.posInt[2] < position[2]
  /\ ev.velInt[2] < 0
  /\ velocity[2] = 0

C4_MovesFreely ==
  isFrame =>
    /\ (ev.velInt[1] > 0 => position[1] >= ev.pos0[1])
    /\ (ev.velInt[1] < 0 => position[1] <= ev.pos0[1])
    /\ (ev.velInt[3] > 0 => position[3] >= ev.pos0[3])
    /\ (ev.velInt[3] < 0 => position[3] <= ev.pos0[3])

\* the faces of fs that pass the near-vertical filter and the triangle test at (x, z)
passing(x, z, fs) == { i \in 1..Len(fs) : qualifies(fs[i], x, z) }

\* the answer of the ground query at (x, z) over fs is none iff no face passes, and
\* otherwise the height, normal and id of the earliest face of maximum height
topmostAt(x, z, fs) ==
  LET g == getGroundInfo(x, z, fs)
      Q == passing(x, z, fs)
  IN /\ g.ok <=> Q # {}
     /\ Q # {} =>
          \E i \in Q :
            /\ g.id = fs[i].id
            /\ g.normal = fs[i].normal
            /\ g.y = planeY(fs[i], x, z)
            /\ \A j \in Q : /\ planeY(fs[j], x, z) <= g.y
                            /\ planeY(fs[j], x, z) = g.y => j >= i

\* C5: the ground query selects the topmost qualifying face, the earliest on equal
\* heights, and none iff no face qualifies: at the body's position and at its
\* post-integration position, over every face collection.
C5_TopmostFace ==
  \A fs \in FaceSets \cup { << >> } :
    /\ topmostAt(position[1], position[3], fs)
    /\ topmostAt(ev.posInt[1], ev.posInt[3], fs)

\* the body stands where two faces of equal, maximal height and two lower faces
\* all qualify, and the query answered with the earlier of the two
C5_Witness ==
  LET Q == passing(position[1], position[3], faces)
  IN /\ Cardinality(Q) >= 4
     /\ \E i, j \in Q : /\ i < j
                        /\ planeY(faces[i], position[1], position[3]) = groundHere.y
                        /\ planeY(faces[j], position[1], position[3]) = groundHere.y
                        /\ groundHere.id = faces[i].id
     /\ isFrame

\* the body state the reset effect is said to leave
resetState ==
  /\ position = << startPos[1],
                   IF groundAtStart.ok THEN groundAtStart.y + radius ELSE startPos[2],
                   startPos[3] >>
  /\ velocity = Zero3
  /\ projectionRef = Zero3
  /\ reflectionRef = Zero3
  /\ currentFaceId = IF groundAtStart.ok THEN groundAtStart.id ELSE NoFace

\* C6 as stated: after mount, after every explicit reset and after every change of
\* the face collection, for every face collection (the empty one included), the
\* body is at the start coordinates on the ground (or at the raw start height), at
\* rest, with zero projection and reflection and the supporting face tracked.
C6_ResetAnyFaces == ev.kind \in { "mount", "reset", "faces" } => resetState

\* C6 as amended: the same for every non-empty face collection.
C6_ResetNonEmpty ==
  (ev.kind \in { "mount", "reset", "faces" } /\ Len(faces) > 0) => resetState

\* an explicit reset of a moving body over faces none of which is under the start
C6_Witness ==
  /\ ev.kind = "reset"
  /\ Len(faces) > 0
  /\ ~groundAtStart.ok
  /\ frames > 0
  /\ position[2] = startPos[2]

\* C7: after every step that ends without ground contact the tracked face id is none
\* and the stored contact vectors (incoming, projection, reflection) are all zero.
C7_VectorsZeroedOffGround ==
  ev.kind = "air" =>
    /\ currentFaceId = NoFace
    /\ incomingRef = Zero3
    /\ projectionRef = Zero3
    /\ reflectionRef = Zero3

\* gravity * delta of the last step
gravityOfStep == RoundDiv(gravity * ev.delta, TimeScale)

\* C8 as stated: a step with dt > 0 that starts with vertical velocity 0 ends with
\* vertical velocity gravity * dt.
C8_GravityFromRest ==
  (isFrame /\ ev.delta > 0 /\ ev.vel0[2] = 0) => velocity[2] = gravityOfStep

\* C8 as amended: every step adds gravity * dt to the vertical velocity before
\* integration; the step ends with that sum if it ends without ground contact (the
\* velocity is then negative and the body not higher than before), with max(0, sum)
\* if it resolves a contact and with 0 if it is a recovery.
C8_GravityByOutcome ==
  isFrame =>
    /\ ev.velInt[2] = ev.vel0[2] + gravityOfStep
    /\ ev.delta <= MaxDelta
    /\ ev.kind = "air" =>
         /\ velocity[2] = ev.vel0[2] + gravityOfStep
         /\ (ev.delta > 0 => velocity[2] < 0)
         /\ position[2] <= ev.pos0[2]
    /\ ev.kind = "contact" => velocity[2] = Max(0, ev.vel0[2] + gravityOfStep)
    /\ ev.kind = "recover" => velocity[2] = 0

\* an airborne body that fell for a second half-length step
C8_Witness ==
  /\ ev.kind = "air"
  /\ ev.delta > 0
  /\ ev.delta < MaxDelta
  /\ ev.vel0[2] < 0
  /\ velocity[2] = ev.vel0[2] + gravityOfStep

\* C9: a step with no directional input leaves velocity.x and velocity.z as they were.
C9_HorizontalPreserved ==
  (isFrame /\ ev.input = Zero3) =>
    /\ velocity[1] = ev.vel0[1]
    /\ velocity[3] = ev.vel0[3]

\* the position component moved by d in the direction of velocity component v, or not at all
movesWith(d, v) == Sign(d) = 0 \/ Sign(d) = Sign(v)

\* C10: in a step with no net input each horizontal velocity component is multiplied
\* by 0.9 before integration, whatever dt; the horizontal speed does not grow, a
\* non-zero component is not damped to zero, and each horizontal position component
\* moves in the sign of its velocity component.
C10_DampingNoInput ==
  (isFrame /\ ev.input = Zero3) =>
    /\ ev.velInt[1] = RoundDiv(9 * ev.vel0[1], 10)
    /\ ev.velInt[3] = RoundDiv(9 * ev.vel0[3], 10)
    /\ Abs(velocity[1]) <= Abs(ev.vel0[1])
    /\ Abs(velocity[3]) <= Abs(ev.vel0[3])
    /\ (ev.vel0[1] # 0 => ev.velInt[1] # 0)
    /\ (ev.vel0[3] # 0 => ev.velInt[3] # 0)
    /\ movesWith(position[1] - ev.pos0[1], ev.velInt[1])
    /\ movesWith(position[3] - ev.pos0[3], ev.velInt[3])

\* the part of C10 the steps that are not recoveries satisfy
C10_ExceptRecovery == ev.kind = "recover" \/ C10_DampingNoInput

\* ---------------------------------------------- claims on the generator
\* the grid of vertices the last call sampled
genVertices == terrainVertices(gen.size, gen.divisions, gen.height, gen.type)

\* the cell step of the last call
genStep == RoundDiv(gen.size, gen.divisions)

\* the vertices of a face in their stored order
corners(f) == << f.a, f.b, f.c >>

\* C11: for divisions >= 1 the generator returns exactly 2 * divisions * divisions
\* faces, the face at list index k has id k, cell (i, j) has its first triangle
\* (a, c, b) at id 2 * (i * divisions + j) and its second triangle (b, c, d) at the
\* next id, and a regeneration numbers its faces from 0 again.
C11_FaceIds ==
  (built /\ gen.divisions >= 1) =>
    LET d == gen.divisions
        V == genVertices
    IN /\ Len(gen.faces) = 2 * d * d
       /\ \A k \in 1..Len(gen.faces) : gen.faces[k].id = k - 1
       /\ { gen.faces[k].id : k \in 1..Len(gen.faces) } = 0..(2 * d * d - 1)
       /\ \A i \in 0..(d - 1), j \in 0..(d - 1) :
            LET k == 2 * (i * d + j)
            IN /\ gen.faces[k + 1].id = k
               /\ corners(gen.faces[k + 1]) = << V[i][j], V[i][j + 1], V[i + 1][j] >>
               /\ gen.faces[k + 2].id = k + 1
               /\ corners(gen.faces[k + 2]) = << V[i + 1][j], V[i][j + 1], V[i + 1][j + 1] >>

\* a regenerated rough terrain of several cells, whose last face has the last id
C11_Witness ==
  /\ gen.phase = "built"
  /\ gen.again
  /\ gen.type = "rough"
  /\ gen.divisions >= 2
  /\ gen.faces[Len(gen.faces)].id = 2 * gen.divisions * gen.divisions - 1

\* C12: for every profile, size, subdivision count and height scale, both triangles
\* of every cell have a normal with a strictly positive y component; the y component
\* of the cross product of the stored edges is the squared cell step.
C12_UpwardNormals ==
  (built /\ gen.divisions >= 1) =>
    \A k \in 1..Len(gen.faces) :
      LET f == gen.faces[k]
      IN /\ f.normal[2] > 0
         /\ cross(sub(f.b, f.a), sub(f.c, f.a))[2] = genStep * genStep

\* a terrain with a tilted face and vertices above and below zero
C12_Witness ==
  /\ built
  /\ \E k \in 1..Len(gen.faces) : gen.faces[k].normal[1] # 0 /\ gen.faces[k].normal[3] # 0
  /\ \E k \in 1..Len(gen.faces) : gen.faces[k].a[2] > 0
  /\ \E k \in 1..Len(gen.faces) : gen.faces[k].a[2] < 0

\* C13: a call with divisions <= 0 ends in an error and returns no face list; a call
\* with valid parameters returns a finite, non-empty face list.
C13_FailFast ==
  built =>
    /\ gen.divisions <= 0 => gen.threw
    /\ gen.divisions >= 1 => (~gen.threw /\ Len(gen.faces) > 0)

\* the part of C13 on valid parameters
C13_ValidNonEmpty == (built /\ gen.divisions >= 1) => (~gen.threw /\ Len(gen.faces) > 0)

\* what the fixed-point encoding may lose between a plane height and a centroid
HeightTol == 1 + 1

\* C14: for every generated face f, the ground query at the (x, z) of f's centroid
\* over the generated faces returns f's id and the height of f's plane there, which
\* is the centroid's y (up to the rounding of the encoding).
C14_CentroidQuery ==
  gen.phase = "probed" =>
    LET f == gen.faces[gen.probe]
    IN /\ gen.hit.ok
       /\ gen.hit.id = f.id
       /\ gen.hit.normal = f.normal
       /\ gen.hit.y = planeY(f, f.centroid[1], f.centroid[3])
       /\ Abs(gen.hit.y - f.centroid[2]) <= HeightTol

\* a probe above a tilted face that is not the first of a terrain of several cells
C14_Witness ==
  /\ gen.phase = "probed"
  /\ gen.divisions >= 2
  /\ gen.probe > 2
  /\ gen.hit.id = gen.probe - 1
  /\ gen.hit.normal[1] # 0
  /\ gen.hit.y # 0

\* ------------------------------------------- claims on renders and effects
\* a terrain change is under way: the Terrain has built another collection after
\* the mount had settled, and the Ball's reset effect for it has not run yet
changeUnderWay(queued) == events > 0 /\ queued \cap { "ready", "faces" } # {}

\* C15: a terrain change is atomic and resets the body.  No step runs between the
\* Terrain building the new collection and the Ball's reset effect for it: every
\* step after the change reads the new collection, and none queries it with the
\* body state of before the change.
C15_AtomicTerrainChange == isFrame => ~changeUnderWay(ev.stale)

\* the part of C15 on mixing: a step reads one collection as a whole, the one the
\* Ball was last rendered with
C15_NeverMixed == isFrame => (faces \in FaceSets \/ faces = << >>)

\* the physical state the claims on throttling speak of: position, velocity, the
\* stored contact vectors and the tracked face
physical ==
  [position |-> position, velocity |-> velocity, contact |-> contactRef,
   incoming |-> incomingRef, normal |-> normalRef, projection |-> projectionRef,
   reflection |-> reflectionRef, face |-> currentFaceId]

\* what a keyboard-mode step of length delta makes of the physical state, the keys
\* and the faces, written without any clock reading
physicalNext(delta) ==
  LET v1 == afterGravity(afterInput(velocity, inputVector), delta)
      p1 == addScaledVector(position, v1, delta)
      g == getGroundInfo(p1[1], p1[3], faces)
      horizontalVel == << v1[1], 0, v1[3] >>
  IN IF outOfBounds(p1)
       THEN [physical EXCEPT !.position = << startPos[1], restY(groundAtStart, startPos),
                                             startPos[3] >>,
                             !.velocity = Zero3, !.face = NoFace]
     ELSE IF touchesGround(g, p1)
       THEN [position |-> << p1[1], snapY(g), p1[3] >>,
             velocity |-> << v1[1], clampVy(v1[2]), v1[3] >>,
             contact |-> << p1[1], g.y, p1[3] >>, incoming |-> horizontalVel,
             normal |-> g.normal, projection |-> projectOnto(horizontalVel, g.normal),
             reflection |-> reflect(horizontalVel, g.normal), face |-> g.id]
     ELSE [physical EXCEPT !.position = p1, !.velocity = v1, !.face = NoFace]

\* C16: throttling does not affect the physical state.  The position, velocity,
\* stored contact vectors and tracked face after a keyboard-mode step are a function
\* of the physical state before it, the keys, the faces and dt alone: two runs that
\* agree on these and differ in their clock readings agree after every step, whether
\* or not the step notified.
C16_ThrottleFree == [][frames' # frames => physical' = physicalNext(ev'.delta)]_vars

\* a contact step that the throttle kept from notifying and that still refreshed
\* the stored vectors, between two clock readings that differ
C16_Witness ==
  /\ ev.kind = "contact"
  /\ ev.vecNote = "none"
  /\ incomingRef # Zero3
  /\ vectors.velocity # incomingRef
  /\ reflectionRef = reflect(incomingRef, normalRef)
  /\ sinceVectorUpdate > 0

C17_Throttled ==
  /\ ev.kind = "air"
  /\ ev.vecNote = "none"
  /\ ev.gapAirClear <= ClearThrottle

\* ----------------------------------------------- claims on the face filter
\* the ground queries of the last operation: the step's query at the
\* post-integration position, the query of the reset effect at the start
queriesMade ==
  IF ev.kind \in { "contact", "air" } THEN { groundAtInt }
  ELSE IF ev.kind \in { "faces", "reset", "recover" } THEN { groundAtStart }
  ELSE {}

\* C18: the ground query returns as supporting face only a face whose normal has a
\* vertical component above the small positive epsilon; a near-vertical or a
\* downward-facing face is never returned.
C18_UpwardSupportOnly ==
  \A g \in queriesMade : g.ok => (~nearVertical(g.normal) /\ g.normal[2] > 0)

\* the part of C18 on near-vertical faces: none is returned
C18_NoNearVertical == \A g \in queriesMade : g.ok => ~nearVertical(g.normal)

\* ------------------------------------------------ claims on the legacy mode
\* the list index of the face the last step bounced off
hitIndex == CHOOSE k \in 1..Len(faces) : faces[k].id = ev.hit

\* the bounce precondition with a distance bounded on both sides: approaching,
\* -radius <= d <= radius, projection inside the triangle
withinRadius(f, p, v) ==
  /\ approaching(v, f.normal)
  /\ signedDist(f, p) >= 0 - radius
  /\ signedDist(f, p) <= radius
  /\ pointInTriangle(projPoint(f, p), f.a, f.b, f.c)

\* C19: a legacy-mode frame resolves a face as a bounce only if the velocity dotted
\* with its normal is negative, the signed distance d of the centre to its plane
\* has -radius <= d <= radius, and the projection of the centre onto the plane is
\* inside the triangle.
C19_BouncePrecondition ==
  ev.kind = "bounce" => withinRadius(faces[hitIndex], ev.posInt, ev.velInt)

\* C19 with the distance bounded from above only, as the loop tests it
C19_NotAbovePrecondition ==
  ev.kind = "bounce" =>
    LET f == faces[hitIndex]
    IN /\ approaching(ev.velInt, f.normal)
       /\ signedDist(f, ev.posInt) <= radius
       /\ pointInTriangle(projPoint(f, ev.posInt), f.a, f.b, f.c)

\* C20: a legacy-mode frame resolves at most one face, the first in list order
\* that satisfies the bounce precondition of C19, and reflects the velocity once
\* off it; a frame that resolves none leaves the integrated velocity.
C20_SingleBounce ==
  ev.kind \in { "slow", "free", "bounce" } =>
    IF ev.kind = "bounce"
      THEN /\ withinRadius(faces[hitIndex], ev.posInt, ev.velInt)
           /\ \A i \in 1..(hitIndex - 1) : ~withinRadius(faces[i], ev.posInt, ev.velInt)
           /\ velocity = reflect(ev.velInt, faces[hitIndex].normal)
           /\ highlightedFaceId = ev.hit
      ELSE velocity = ev.velInt

\* C20 with the precondition as the loop tests it: the face resolved is the first
\* in list order that passes the loop's three tests, later faces play no part
C20_FirstByLoopTest ==
  ev.kind \in { "slow", "free", "bounce" } =>
    IF ev.kind = "bounce"
      THEN /\ collides(faces[hitIndex], ev.posInt, ev.velInt)
           /\ \A i \in 1..(hitIndex - 1) : ~collides(faces[i], ev.posInt, ev.velInt)
           /\ velocity = reflect(ev.velInt, faces[hitIndex].normal)
           /\ highlightedFaceId = ev.hit
      ELSE velocity = ev.velInt

\* a bounce off a face that is not the first of its list while a later face passes
\* the loop's tests as well
C20_LaterFacePasses ==
  /\ ev.kind = "bounce"
  /\ \E i \in (hitIndex + 1)..Len(faces) : collides(faces[i], ev.posInt, ev.velInt)

\* what rounding a vector's three components to the encoding's unit may change in
\* its squared length
lengthSqTol(v) == 2 * (Abs(v[1]) + Abs(v[2]) + Abs(v[3])) + 3

\* C21: a legacy-mode frame that resolves a face with unit normal n, incoming
\* velocity v and signed distance d leaves the velocity v - 2 (v.n) n, whose normal
\* component is -(v.n) > 0 and whose magnitude is |v|; when radius - d > 0 it moves
\* the body along n by (radius - d) + 0.001, to the signed distance radius + 0.001
\* (radius, up to one unit of the encoding), and otherwise leaves the integrated
\* position.
C21_BounceEffect ==
  ev.kind = "bounce" =>
    LET f == faces[hitIndex]
        n == f.normal
        v == ev.velInt
        d == signedDist(f, ev.posInt)
    IN /\ velocity = sub(v, scaleBy(n, 2 * dot(v, n), Scale * Scale))
       /\ dot(velocity, n) > 0
       /\ Abs(dot(velocity, n) + dot(v, n)) <= Scale
       /\ Abs(lengthSq(velocity) - lengthSq(v)) <= lengthSqTol(v)
       /\ IF radius - d > 0
            THEN /\ ev.push = (radius - d) * PushEpsInv + Scale
                 /\ position = add(ev.posInt, scaleBy(n, ev.push, Scale * PushEpsInv))
                 /\ Abs(signedDist(f, position) - radius) <= 1
            ELSE position = ev.posInt

\* a bounce off the ramp: the normal is tilted, the body had sunk into the face
\* and the velocity changed in two components
C21_Witness ==
  /\ ev.kind = "bounce"
  /\ faces[hitIndex].normal[1] # 0
  /\ ev.push > Scale
  /\ velocity[1] # ev.velInt[1]
  /\ velocity[2] > 0

\* ------------------------------------------------ claims on the time step
\* the last operation was a step that integrated, in either mode
integrated == isFrame \/ ev.kind \in { "slow", "free", "bounce" }

\* the largest change of vertical velocity gravity makes in one step: 9.81 / 60
maxGravityStep == RoundDiv(Abs(gravity), FrameRate)

\* |to - from| <= |v| / 60 in every component, up to half a unit of the encoding
movedWithin(from, to, v) ==
  \A i \in 1..3 : 2 * FrameRate * Abs(to[i] - from[i]) <= 2 * Abs(v[i]) + FrameRate

C22_LegacyWitness ==
  /\ ev.kind = "free"
  /\ ev.dt > MaxDelta
  /\ ev.delta = MaxDelta
  /\ ev.velInt[2] < ev.vel0[2]
  /\ ev.posInt # ev.pos0

\* ------------------------------------------------------ claims on the input
\* the net input of the keys that are down: d minus a, w minus s
netX == (IF "d" \in keys THEN 1 ELSE 0) - (IF "a" \in keys THEN 1 ELSE 0)
netZ == (IF "w" \in keys THEN 1 ELSE 0) - (IF "s" \in keys THEN 1 ELSE 0)

C23_Cancelled ==
  /\ isFrame
  /\ { "a", "d" } \subseteq keys
  /\ netX = 0
  /\ netZ = 0
  /\ ev.vel0[1] # 0
  /\ ev.velInt[1] = damp(ev.vel0[1])

\* -------------------------------------------- claims on the contact vectors
\* C24: after a keyboard-mode step that resolves a ground contact on a face with
\* normal n at height h, the stored incoming vector is (vx, 0, vz) of the velocity
\* after the input, the stored normal is n, the projection is projectOnto(incoming,
\* n), the reflection is reflect(incoming, n) and the contact point is (x, h, z);
\* on a face with normal (0, 1, 0) the projection is zero and the reflection is the
\* incoming vector.
C24_ContactVectors ==
  ev.kind = "contact" =>
    LET g == groundAtInt
        n == g.normal
        along == dot(incomingRef, n)
    IN /\ incomingRef = << ev.velInt[1], 0, ev.velInt[3] >>
       /\ incomingRef = << velocity[1], 0, velocity[3] >>
       /\ normalRef = n
       /\ projectionRef = projectOnto(incomingRef, n)
       /\ \A i \in 1..3 : Abs(Scale * Scale * projectionRef[i] - along * n[i])
                             <= (Scale * Scale) \div 2
       /\ reflectionRef = reflect(incomingRef, n)
       /\ \A i \in 1..3 :
            Abs(reflectionRef[i] - (incomingRef[i] - 2 * projectionRef[i])) <= 1
       /\ contactRef = << position[1], g.y, position[3] >>
       /\ contactRef[2] = position[2] - radius
       /\ n = Up3 => (projectionRef = Zero3 /\ reflectionRef = incomingRef)

\* a contact on the ramp with a moving body: the projection is not zero and the
\* reflection has a vertical component
C24_Witness ==
  /\ ev.kind = "contact"
  /\ normalRef[1] # 0
  /\ incomingRef # Zero3
  /\ projectionRef # Zero3
  /\ reflectionRef[2] # 0
  /\ ev.velInt[2] < 0

\* a contact on a horizontal face with a moving body
C24_FlatContact ==
  /\ ev.kind = "contact"
  /\ normalRef = Up3
  /\ incomingRef # Zero3
  /\ reflectionRef = incomingRef

\* ------------------------------------------------------ claims on the launch
\* this step runs the Ball's queued effects
effectsStep == pending \cap { "reset", "faces", "launch" } # {} /\ pending' = {}

\* this step is a simulation step
frameStep == frames' = frames + 1

\* the velocity the reset effect of this render leaves to the launch effect
afterReset == IF resetRan THEN Zero3 ELSE velocity

\* the effects overwrite the velocity only with the launch vector and only when the
\* render they follow took launched from false to true with keyboard control off
launchOnlyAtEdge ==
  effectsStep /\ velocity' # afterReset => launchEdge /\ velocity' = launchVector

\* in keyboard mode the launch effect leaves the velocity and the position alone, a
\* change of launched or of the launch vector moves nothing, and no step runs the
\* legacy branch
keyboardInert ==
  /\ launched' # launched \/ launchVector' # launchVector
       => UNCHANGED << position, velocity >>
  /\ keyboardControl /\ effectsStep => velocity' = afterReset
  /\ keyboardControl /\ effectsStep /\ pending = { "launch" }
       => UNCHANGED << position, velocity >>
  /\ keyboardControl /\ frameStep => ev'.kind \in { "contact", "air", "recover" }

\* a legacy step with launched = false leaves position and velocity unchanged
legacyIdle ==
  ~keyboardControl /\ frameStep /\ ~launched => UNCHANGED << position, velocity >>

\* C25: the velocity is overwritten with the launch vector only at a false-to-true
\* transition of launched while keyboard control is off; a later change of the
\* launch vector while launched stays true does not alter it; in keyboard mode
\* neither launched nor the launch vector changes velocity or position and the
\* legacy branch never runs; a legacy step with launched = false leaves position
\* and velocity unchanged.
C25_LaunchOneShot == [][launchOnlyAtEdge /\ keyboardInert /\ legacyIdle]_vars

\* the parts of C25 on keyboard mode and on the idle legacy step
C25_InertAndIdle == [][keyboardInert /\ legacyIdle]_vars

\* a launch at the edge has happened: the body moves with the launch vector
C25_Launched ==
  /\ ~keyboardControl
  /\ launched
  /\ prevLaunched
  /\ ev.kind = "launch"
  /\ velocity = launchVector

\* the launch effect has run with launched = true in keyboard mode and has not
\* recorded it: the next render without keyboard control launches
C25_StaleEdge ==
  /\ keyboardControl
  /\ launched
  /\ ~prevLaunched
  /\ settled
  /\ launchVector # Zero3

\* ---------------------------------------------------- claims on the recovery
\* the last step resolved a ground contact, or performed the recovery that puts the
\* body at the start coordinates
resolved ==
  \/ ev.kind = "contact"
  \/ /\ ev.kind = "recover"
     /\ position = << startPos[1], restY(groundAtStart, startPos), startPos[3] >>

C26_Falling ==
  /\ ev.kind = "air"
  /\ Len(faces) > 0
  /\ ~groundHere.ok
  /\ velocity[2] < 0
  /\ position[2] < ev.pos0[2]

\* ------------------------------------------------------ claims on the bounds
\* |x| <= 0.6 * 10, |z| <= 0.6 * 10 and y >= -5
withinBounds(p) ==
  /\ Abs(p[1]) * BoundDen <= terrainSize * Scale * BoundNum
  /\ Abs(p[3]) * BoundDen <= terrainSize * Scale * BoundNum
  /\ p[2] >= resetThreshold * Scale

\* the start coordinates with the reset height: where a recovery puts the body
startRest == << startPos[1], restY(groundAtStart, startPos), startPos[3] >>

C27_OnThreshold ==
  /\ ev.kind = "air"
  /\ position[2] = resetThreshold * Scale
  /\ velocity[2] < 0
  /\ position[1] # startPos[1]

\* a step whose integration fell below the vertical threshold has put the body back
C27_FellBelow ==
  /\ ev.kind = "recover"
  /\ ev.posInt[2] < resetThreshold * Scale
  /\ withinBounds(position)

\* --------------------------------------------------- claims on the highlight
\* the last operation was a step, or the effect that follows a reset or a change
\* of the faces, and no effect is waiting
afterStepOrReset ==
  settled /\ ev.kind \in { "contact", "air", "recover", "reset", "faces" }

\* the face id the page holds is the face id the Ball tracks
highlightTracks == afterStepOrReset => highlightedFaceId = currentFaceId

\* a step that reports a highlight changes the tracked face id
notifiesOnChange ==
  frameStep /\ keyboardControl /\ ev'.hiNote # "none" => currentFaceId' # currentFaceId

\* C28: in keyboard mode, after every step, every reset and every change of the
\* terrain, the face id last reported through onHighlightFace (with the page's own
\* clear on an explicit reset) equals the tracked face id, and a step reports a
\* highlight only when the tracked face id changes.
C28_HighlightConsistency == [][highlightTracks' /\ notifiesOnChange]_vars

\* the first half of C28 alone
C28_Tracks == [][highlightTracks']_vars

\* the second half of C28 alone
C28_OnChange == [][notifiesOnChange]_vars

\* with a face under the start coordinates the page's face id is the tracked one
C28_SupportedStart ==
  afterStepOrReset /\ groundAtStart.ok => highlightedFaceId = currentFaceId

\* a step other than a recovery reports a highlight exactly when the tracked face
\* id changes
C28_ContactAirOnChange ==
  [][frameStep /\ ev'.kind # "recover"
       => (ev'.hiNote # "none" <=> currentFaceId' # currentFaceId)]_vars

\* the faces have changed to a collection with nothing under the start: the reset
\* effect has dropped the tracked face id and reported nothing
C28_StaleHighlight ==
  /\ ev.kind = "faces"
  /\ settled
  /\ ~groundAtStart.ok
  /\ currentFaceId = NoFace
  /\ highlightedFaceId # NoFace

\* a recovery of a body that tracked no face has reported a null highlight
C28_RedundantNull ==
  /\ ev.kind = "recover"
  /\ ev.hiNote = "null"
  /\ ~getGroundInfo(ev.pos0[1], ev.pos0[3], faces).ok
  /\ currentFaceId = NoFace
  /\ highlightedFaceId = NoFace

====
